---- MODULE Spec2Model ----
(***************************************************************************)
(* Signal parsing and update-reconciliation pipeline of the trading bot    *)
(* (src/bot.py): the TradingSignal record, the extractor                   *)
(* intelligent_signal_parser, the classifier parse_signal_update, the      *)
(* reconciler apply_signal_update, and the two handlers that touch the     *)
(* registry (handle_message for private chats, monitor_signal_channel for  *)
(* channel posts).                                                         *)
(*                                                                         *)
(* The dispatcher awaits one handler to completion before it takes the     *)
(* next update, so in Spec every handler is one atomic action.  The two    *)
(* language-model calls are external: their responses are inputs, drawn    *)
(* from the sets ExtractResps and ClassifyResps.                           *)
(***************************************************************************)
EXTENDS Integers, Sequences, FiniteSets, TLC

(* ------------------------------ bounds --------------------------------- *)

\* number of inbound messages handled in one behaviour (also the clock cap)
MaxMsgs == 3

\* depth up to which the extractor harness lets the channel handler run
\* before it probes the extractor
MaxProbeDepth == 1

(* --------------------------- Python values ----------------------------- *)
(* A value decoded from JSON (or held in a field) is a tagged record so    *)
(* that values of different Python types can be compared:                  *)
(*   t = "num"  : a number, n its value (prices are small naturals)        *)
(*   t = "str"  : a string, s its characters                               *)
(*   t = "none" : None / JSON null                                         *)
(*   t = "list" : a JSON array                                             *)
(*   t = "absent": the key is not in the dict (not a Python value)         *)

PyNum(n) == [t |-> "num", s |-> <<>>, n |-> n]

PyStr(s) == [t |-> "str", s |-> s, n |-> 0]

PyNone == [t |-> "none", s |-> <<>>, n |-> 0]

PyList == [t |-> "list", s |-> <<>>, n |-> 0]

Absent == [t |-> "absent", s |-> <<>>, n |-> 0]

IsNumber(v) == v.t = "num"

\* the letters that occur in the texts of the model, lower case and upper case
LowerLetters == <<"b", "d", "e", "h", "l", "n", "o", "u", "x", "y">>

UpperLetters == <<"B", "D", "E", "H", "L", "N", "O", "U", "X", "Y">>

\* str.upper() on one character
UpperChar(c) ==
    IF \E i \in 1..Len(LowerLetters) : LowerLetters[i] = c
    THEN UpperLetters[CHOOSE i \in 1..Len(LowerLetters) : LowerLetters[i] = c]
    ELSE c

\* str.lower() on one character
LowerChar(c) ==
    IF \E i \in 1..Len(UpperLetters) : UpperLetters[i] = c
    THEN LowerLetters[CHOOSE i \in 1..Len(UpperLetters) : UpperLetters[i] = c]
    ELSE c

Upper(s) == [i \in 1..Len(s) |-> UpperChar(s[i])]

Lower(s) == [i \in 1..Len(s) |-> LowerChar(s[i])]

\* the decimal digit of a small natural
Digit(n) ==
    CASE n = 0 -> "0"
      [] n = 1 -> "1"
      [] n = 2 -> "2"
      [] n = 3 -> "3"
      [] n = 4 -> "4"
      [] OTHER -> "9"

\* str(v)
PyStrOf(v) ==
    CASE v.t = "str" -> v.s
      [] v.t = "num" -> <<Digit(v.n)>>
      [] v.t = "none" -> <<"N", "o", "n", "e">>
      [] OTHER -> <<"[", "]">>

\* float(v) succeeds on numbers and on strings that spell a number
FloatOk(v) ==
    \/ v.t = "num"
    \/ v.t = "str" /\ v.s \in {<<"1">>, <<"2">>, <<"3">>}

\* float(v) where it succeeds
FloatOf(v) ==
    IF v.t = "num" THEN PyNum(v.n)
    ELSE IF v.s = <<"1">> THEN PyNum(1)
    ELSE IF v.s = <<"2">> THEN PyNum(2)
    ELSE PyNum(3)

\* a in b for two strings: a occurs as a contiguous substring of b
IsSubstring(a, b) ==
    \E i \in 0..(Len(b) - Len(a)) : SubSeq(b, i + 1, i + Len(a)) = a

(* ---------------------- capability responses --------------------------- *)
(* A response of the language-model call is either a transport failure     *)
(* (kind = "error": messages.create raises) or a text (kind = "text").     *)
(* A text is a body, possibly wrapped in a ```json fence.  The body is     *)
(* garbage (not JSON) or one JSON value: an object, a non-empty array, a   *)
(* non-zero number, a non-empty string, or null.                           *)

\* the five keys of an extraction object; Absent marks a missing key
Dict(i, sd, e, tp, sl) == [instrument |-> i, side |-> sd, entry |-> e, tp |-> tp, sl |-> sl]

EmptyDict == Dict(Absent, Absent, Absent, Absent, Absent)

ExtractText(fence, j, d) == [kind |-> "text", fence |-> fence, j |-> j, d |-> d]

ExtractError == [kind |-> "error", fence |-> FALSE, j |-> "garbage", d |-> EmptyDict]

EU == <<"E", "U">>

eu == <<"e", "u">>

U == <<"U">>

\* three complete candidates: two name EU (in lower case), one names U
CandA == Dict(PyStr(eu), PyStr(<<"b", "u", "y">>), PyNum(1), PyNum(2), PyNum(0))

CandB == Dict(PyStr(eu), PyStr(<<"h", "o", "l", "d">>), PyNum(2), PyStr(<<"3">>), PyNum(1))

CandC == Dict(PyStr(U), PyStr(<<"S", "E", "L", "L">>), PyStr(<<"2">>), PyNum(1), PyNum(3))

ValidExtractResps ==
    {ExtractText(FALSE, "object", CandA), ExtractText(TRUE, "object", CandB),
     ExtractText(FALSE, "object", CandC)}

\* responses from which no signal can be built, one per failure shape
InvalidExtractResps ==
    {ExtractError,
     ExtractText(FALSE, "object", [CandA EXCEPT !.sl = Absent])}

\* the responses the handlers of Spec are run on
ExtractResps == ValidExtractResps \cup InvalidExtractResps

\* the values the fields of an extraction object are probed with
ProbeStrings == {PyStr(eu), Absent, PyNone}

ProbeNumbers == {PyNum(1), PyStr(<<"2">>), PyStr(<<"x">>), Absent, PyNone}

\* the responses the extractor harness (SpecExtract) is run on
AllExtractResps ==
    {ExtractError}
    \cup {ExtractText(f, j, EmptyDict) : f \in BOOLEAN, j \in {"garbage", "array", "number", "string", "null", "object"}}
    \cup {ExtractText(f, "object", Dict(i, sd, e, tp, sl)) :
            f \in BOOLEAN, i \in ProbeStrings, sd \in {PyStr(<<"b", "u", "y">>), Absent},
            e \in ProbeNumbers, tp \in ProbeNumbers, sl \in ProbeNumbers}

\* a classification response; action "ABSENT" marks a missing key
ClassifyText(fence, j, action, value) ==
    [kind |-> "text", fence |-> fence, j |-> j, action |-> action, value |-> value]

ClassifyError == [kind |-> "error", fence |-> FALSE, j |-> "garbage", action |-> "ABSENT", value |-> Absent]

\* the seven actions the classifier prompt permits
PermittedActions ==
    {"breakeven", "take_partial_profit", "move_stop_loss", "move_take_profit",
     "close_trade", "add_position", "other"}

ClassifyResps ==
    {ClassifyText(FALSE, "object", a, Absent) :
        a \in {"breakeven", "move_stop_loss", "close_trade", "add_position", "other", "hedge"}}
    \cup {ClassifyText(FALSE, "object", a, PyNum(3)) : a \in {"take_partial_profit", "move_stop_loss", "ABSENT"}}
    \cup {ClassifyText(TRUE, "object", "move_take_profit", PyNum(3)),
          ClassifyError,
          ClassifyText(FALSE, "garbage", "ABSENT", Absent),
          ClassifyText(FALSE, "array", "ABSENT", Absent)}

\* response_text.replace('```json', '').replace('```', '').strip()
strip_fences(text) == [text EXCEPT !.fence = FALSE]

\* json.loads succeeds on a bare JSON value only
json_decodes(text) == ~text.fence /\ text.j # "garbage"

(* ------------------------------ state ---------------------------------- *)

VARIABLES
    active_signals,  \* the active registry: a dict in insertion order, a sequence of [key, sig]
    closed_signals,  \* closed-history: the list of to_dict() snapshots
    now,             \* the clock read by datetime.now(); one tick per handled message
    next_oid,        \* identity of the next TradingSignal object that is constructed
    log,             \* what the last handler run logged, in order
    calls,           \* the calls of apply_signal_update made by the last handler run
    outcome,         \* how the last handler run ended: "idle", "returned" or "raised"
    probe,           \* extractor harness: the responses the extractor was probed with and its results
    tasks            \* interleaved handlers: the local state of each running channel handler

vars == <<active_signals, closed_signals, now, next_oid, log, calls, outcome, probe, tasks>>

(* --------------------------- Signal Record ------------------------------ *)

\* TradingSignal.__init__ as it would be if breakeven_level started at the entry price
TradingSignal_breakeven_at_entry(instrument, side, entry, tp, sl, timestamp, oid) ==
    [oid |-> oid,
     instrument |-> instrument,
     side |-> side,
     entry |-> entry,
     tp |-> tp,
     sl |-> sl,
     timestamp |-> timestamp,
     message_id |-> PyNone,
     status |-> "ACTIVE",
     current_profit |-> 0,
     hit_tp |-> FALSE,
     hit_sl |-> FALSE,
     partial_profits |-> <<>>,
     breakeven_level |-> entry,
     updates_history |-> <<>>]

\* TradingSignal.__init__; oid stands for the identity of the Python object
TradingSignal(instrument, side, entry, tp, sl, timestamp, oid) ==
    [oid |-> oid,
     instrument |-> instrument,
     side |-> side,
     entry |-> entry,
     tp |-> tp,
     sl |-> sl,
     timestamp |-> timestamp,
     message_id |-> PyNone,
     status |-> "ACTIVE",
     current_profit |-> 0,
     hit_tp |-> FALSE,
     hit_sl |-> FALSE,
     partial_profits |-> <<>>,
     breakeven_level |-> PyNone,
     updates_history |-> <<>>]

\* datetime.isoformat(): the text of a time
isoformat(t) == [iso |-> t]

\* TradingSignal.to_dict: the snapshot kept in closed-history
to_dict(sig) ==
    [instrument |-> sig.instrument,
     side |-> sig.side,
     entry |-> sig.entry,
     tp |-> sig.tp,
     sl |-> sig.sl,
     timestamp |-> isoformat(sig.timestamp),
     status |-> sig.status,
     current_profit |-> sig.current_profit,
     hit_tp |-> sig.hit_tp,
     hit_sl |-> sig.hit_sl,
     partial_profits |-> sig.partial_profits,
     breakeven_level |-> sig.breakeven_level]

\* a placeholder where an operator returns no signal
NoSignal == TradingSignal(<<>>, <<>>, PyNone, PyNone, PyNone, 0, 0)

(* ------------------------------ registry -------------------------------- *)

\* list(active_signals.keys()): the keys in insertion order
Keys(reg) == [i \in 1..Len(reg) |-> reg[i].key]

\* k in active_signals
HasKey(reg, k) == \E i \in 1..Len(reg) : reg[i].key = k

\* active_signals[k]
Get(reg, k) == reg[CHOOSE i \in 1..Len(reg) : reg[i].key = k].sig

\* Put as it would be if the key were the name in lower case
Put_lower_key(reg, k, sig) ==
    IF HasKey(reg, Lower(k))
    THEN [i \in 1..Len(reg) |-> IF reg[i].key = Lower(k) THEN [key |-> Lower(k), sig |-> sig] ELSE reg[i]]
    ELSE Append(reg, [key |-> Lower(k), sig |-> sig])

\* active_signals[k] = sig: an existing key keeps its place, a new one goes last
Put(reg, k, sig) ==
    IF HasKey(reg, k)
    THEN [i \in 1..Len(reg) |-> IF reg[i].key = k THEN [key |-> k, sig |-> sig] ELSE reg[i]]
    ELSE Append(reg, [key |-> k, sig |-> sig])

\* del active_signals[k]
Del(reg, k) == SelectSeq(reg, LAMBDA e : e.key # k)

\* a field assignment on the object sig.oid, seen through every reference the registry holds
Mutate(reg, sig) ==
    [i \in 1..Len(reg) |-> IF reg[i].sig.oid = sig.oid THEN [reg[i] EXCEPT !.sig = sig] ELSE reg[i]]

(* ------------------------------ extractor ------------------------------- *)

\* `signal_data and all(k in signal_data for k in [...])` and the constructor call,
\* before the except clauses: "signal", "none", or the exception that is raised
parser_try(resp, t, oid) ==
    IF resp.kind = "error" THEN [kind |-> "Exception", sig |-> NoSignal]
    ELSE LET text == strip_fences(resp)
             d == text.d
         IN  IF ~json_decodes(text) THEN [kind |-> "JSONDecodeError", sig |-> NoSignal]
             ELSE IF text.j = "null" THEN [kind |-> "none", sig |-> NoSignal]
             ELSE IF text.j = "number" THEN [kind |-> "Exception", sig |-> NoSignal]
             ELSE IF text.j \in {"array", "string"} THEN [kind |-> "none", sig |-> NoSignal]
             ELSE IF \E k \in DOMAIN d : d[k] = Absent THEN [kind |-> "none", sig |-> NoSignal]
             ELSE IF ~(FloatOk(d.entry) /\ FloatOk(d.tp) /\ FloatOk(d.sl))
                  THEN [kind |-> "Exception", sig |-> NoSignal]
             ELSE [kind |-> "signal",
                   sig |-> TradingSignal(Upper(PyStrOf(d.instrument)), Upper(PyStrOf(d.side)),
                                         FloatOf(d.entry), FloatOf(d.tp), FloatOf(d.sl), t, oid)]

\* intelligent_signal_parser as it would be with the JSONDecodeError clause only
intelligent_signal_parser_narrow(resp, t, oid) ==
    LET r == parser_try(resp, t, oid)
    IN  IF r.kind = "JSONDecodeError" THEN [kind |-> "none", sig |-> NoSignal] ELSE r

\* intelligent_signal_parser: both except clauses return None
intelligent_signal_parser(resp, t, oid) ==
    LET r == parser_try(resp, t, oid)
    IN  IF r.kind \in {"JSONDecodeError", "Exception"} THEN [kind |-> "none", sig |-> NoSignal] ELSE r

(* ------------------------------ classifier ------------------------------ *)

NoUpdate == [kind |-> "none", action |-> "ABSENT", value |-> Absent]

\* parse_signal_update: `update_data if update_data else None`, any exception gives None.
\* kind "dict" is a non-empty object, "nondict" any other truthy JSON value.
parse_signal_update(resp) ==
    IF resp.kind = "error" THEN NoUpdate
    ELSE LET text == strip_fences(resp)
         IN  IF ~json_decodes(text) THEN NoUpdate
             ELSE IF text.j = "null" THEN NoUpdate
             ELSE IF text.j # "object" THEN [kind |-> "nondict", action |-> "ABSENT", value |-> Absent]
             ELSE IF text.action = "ABSENT" /\ text.value = Absent THEN NoUpdate
             ELSE [kind |-> "dict", action |-> text.action, value |-> text.value]

(* ------------------------------ reconciler ------------------------------ *)

\* one entry of updates_history
AuditEntry(t, action, details) == [timestamp |-> isoformat(t), action |-> action, details |-> details]

\* update.get('action', 'other')
action_of(update) == IF update.action = "ABSENT" THEN "other" ELSE update.action

\* update.get('value')
value_of(update) == IF update.value = Absent THEN PyNone ELSE update.value

\* append_audit as it would be if the entry were assigned instead of appended
append_audit_assign(signal, t, action, details) ==
    [signal EXCEPT !.updates_history = <<AuditEntry(t, action, details)>>]

\* signal.updates_history.append({...})
append_audit(signal, t, action, details) ==
    [signal EXCEPT !.updates_history = Append(@, AuditEntry(t, action, details))]

\* set_breakeven as it would be if the stop loss itself were moved to the entry
set_breakeven_moves_sl(signal) == [signal EXCEPT !.breakeven_level = signal.entry, !.sl = signal.entry]

\* signal.breakeven_level = signal.entry
set_breakeven(signal) == [signal EXCEPT !.breakeven_level = signal.entry]

\* add_partial_profit as it would be if the entry were inserted at the front
add_partial_profit_front(signal, value, t) ==
    [signal EXCEPT !.partial_profits = <<[level |-> value, timestamp |-> isoformat(t)]>> \o @]

\* signal.partial_profits.append({"level": value, "timestamp": ...})
add_partial_profit(signal, value, t) ==
    [signal EXCEPT !.partial_profits = Append(@, [level |-> value, timestamp |-> isoformat(t)])]

\* set_sl as it would be if moving the stop loss cleared the breakeven level
set_sl_clears_breakeven(signal, value) == [signal EXCEPT !.sl = value, !.breakeven_level = PyNone]

\* signal.sl = value
set_sl(signal, value) == [signal EXCEPT !.sl = value]

\* signal.tp = value
set_tp(signal, value) == [signal EXCEPT !.tp = value]

\* close_trade as it would be without the del
close_trade_no_del(signal, reg, closed, t) ==
    LET sig2 == append_audit([signal EXCEPT !.status = "CLOSED"], t, "TRADE CLOSED", <<>>)
        reg2 == Mutate(reg, sig2)
    IN  [sig |-> sig2, active |-> reg2, closed |-> Append(closed, to_dict(sig2)), status |-> "Trade closed"]

\* close_trade as it would be if the snapshot were taken before the status is set
close_trade_early_snapshot(signal, reg, closed, t) ==
    LET sig2 == append_audit([signal EXCEPT !.status = "CLOSED"], t, "TRADE CLOSED", <<>>)
        reg2 == Mutate(reg, sig2)
    IN  [sig |-> sig2, active |-> Del(reg2, sig2.instrument),
         closed |-> Append(closed, to_dict(signal)), status |-> "Trade closed"]

\* the close_trade branch: mark the object CLOSED, log it, and if its instrument is a key
\* of the registry delete that key and append the snapshot
close_trade(signal, reg, closed, t) ==
    LET sig2 == append_audit([signal EXCEPT !.status = "CLOSED"], t, "TRADE CLOSED", <<>>)
        reg2 == Mutate(reg, sig2)
    IN  IF HasKey(reg2, sig2.instrument)
        THEN [sig |-> sig2, active |-> Del(reg2, sig2.instrument),
              closed |-> Append(closed, to_dict(sig2)), status |-> "Trade closed"]
        ELSE [sig |-> sig2, active |-> reg2, closed |-> closed, status |-> "Trade closed"]

\* a branch that only assigns fields of the object
mutated(sig2, reg, closed, status) ==
    [sig |-> sig2, active |-> Mutate(reg, sig2), closed |-> closed, status |-> status]

\* apply_signal_update(signal, update) at time t on registry reg and closed-history closed:
\* the object after the call, both collections after the call, and the status string
apply_signal_update(signal, update, reg, closed, t) ==
    LET action == action_of(update)
        value == value_of(update)
    IN  CASE action = "breakeven" ->
               mutated(append_audit(set_breakeven(signal), t, "BREAKEVEN SET", <<signal.entry>>),
                       reg, closed, "Stop loss moved to breakeven")
          [] action = "take_partial_profit" ->
               mutated(append_audit(add_partial_profit(signal, value, t), t, "PARTIAL PROFIT", <<value>>),
                       reg, closed, "Partial profit taken")
          [] action = "move_stop_loss" ->
               mutated(append_audit(set_sl(signal, value), t, "SL MOVED", <<signal.sl, value>>),
                       reg, closed, "Stop loss moved")
          [] action = "move_take_profit" ->
               mutated(append_audit(set_tp(signal, value), t, "TP MOVED", <<signal.tp, value>>),
                       reg, closed, "Take profit moved")
          [] action = "close_trade" -> close_trade(signal, reg, closed, t)
          [] OTHER ->
               [sig |-> signal, active |-> reg, closed |-> closed, status |-> "Update received"]

\* what `calls` keeps of one call of the reconciler
Call(before, update, res) == [before |-> before, update |-> update, after |-> res.sig, status |-> res.status]

(* --------------------------- log entries -------------------------------- *)

LogEntry(ev, inst) == [ev |-> ev, inst |-> inst]

(* ------------------- handle_message (private and group chats) ----------- *)

\* the part of handle_message that reaches the registry: a private chat message is offered
\* to the extractor and a parsed signal is stored under its instrument
handle_message_private(resp) ==
    LET p == intelligent_signal_parser(resp, now, next_oid)
    IN  IF p.kind = "signal"
        THEN /\ active_signals' = Put(active_signals, p.sig.instrument, p.sig)
             /\ next_oid' = next_oid + 1
             /\ log' = <<LogEntry("Signal Parsed!", p.sig.instrument)>>
             /\ outcome' = "returned"
        ELSE IF p.kind = "none"
        THEN /\ UNCHANGED <<active_signals, next_oid>>
             /\ log' = <<LogEntry("conversation", <<>>)>>
             /\ outcome' = "returned"
        ELSE /\ UNCHANGED <<active_signals, next_oid>>
             /\ log' = <<>>
             /\ outcome' = "raised"

\* handle_message: no text or a rate-limited user returns at once; a private chat goes
\* through the extractor; everything else is conversation and leaves the registry alone
HandleMessage ==
    /\ now < MaxMsgs
    /\ \E has_text \in BOOLEAN, rate_ok \in BOOLEAN, chat_type \in {"private", "group"} :
          IF ~has_text
          THEN /\ log' = <<>>
               /\ outcome' = "returned"
               /\ UNCHANGED <<active_signals, next_oid>>
          ELSE IF ~rate_ok
          THEN /\ log' = <<LogEntry("Please wait", <<>>)>>
               /\ outcome' = "returned"
               /\ UNCHANGED <<active_signals, next_oid>>
          ELSE IF chat_type = "private"
          THEN \E resp \in ExtractResps : handle_message_private(resp)
          ELSE /\ log' = <<LogEntry("conversation", <<>>)>>
               /\ outcome' = "returned"
               /\ UNCHANGED <<active_signals, next_oid>>
    /\ now' = now + 1
    /\ calls' = <<>>
    /\ UNCHANGED <<closed_signals, probe, tasks>>

(* ------------------- monitor_signal_channel (channel posts) ------------- *)

\* the texts of the channel posts; <<>> is a post without text
Messages == {<<>>, eu, <<"U">>, <<"x", "E", "u">>}

\* mentions as it would be without the two lower() calls
mentions_case_sensitive(text, instrument) == IsSubstring(instrument, text)

\* instrument.lower() in message_text.lower()
mentions(text, instrument) == IsSubstring(Lower(instrument), Lower(text))

\* Mentioned as it would be if the loop did not test the text for the name
Mentioned_any(reg, text) == Keys(reg)

\* the keys of the registry, in order, that the text mentions
Mentioned(reg, text) == SelectSeq(Keys(reg), LAMBDA k : mentions(text, k))

\* `update_data and update_data.get('action') != 'other'`: "skip" when falsy or other,
\* "apply" when it holds, "raise" when update_data is truthy but has no .get
update_guard(update) ==
    IF update.kind = "none" THEN "skip"
    ELSE IF update.kind = "nondict" THEN "raise"
    ELSE IF update.action = "other" THEN "skip"
    ELSE "apply"

\* fallback_scan as it would be if the break followed the first classification
fallback_scan_first_only(ms, crs, i, checked) ==
    IF i > Len(ms) THEN [kind |-> "none", key |-> <<>>, update |-> NoUpdate, checked |-> checked]
    ELSE IF i > Len(crs) THEN [kind |-> "starved", key |-> <<>>, update |-> NoUpdate, checked |-> checked]
    ELSE LET update == parse_signal_update(crs[i])
             g == update_guard(update)
             seen == Append(checked, LogEntry("Checking if message is an update", ms[i]))
         IN  IF g = "skip" THEN [kind |-> "none", key |-> <<>>, update |-> NoUpdate, checked |-> seen]
             ELSE [kind |-> g, key |-> ms[i], update |-> update, checked |-> seen]

\* the fallback loop over list(active_signals.keys()): ms are the keys the text mentions, in
\* order, crs[i] is the classifier's response to its i-th call.  The loop goes on after a
\* "skip" and ends at the first "apply" (break) or "raise", or when ms is used up ("none").
\* It is "starved" when it calls the classifier more often than crs has responses.
RECURSIVE fallback_scan(_, _, _, _)
fallback_scan(ms, crs, i, checked) ==
    IF i > Len(ms) THEN [kind |-> "none", key |-> <<>>, update |-> NoUpdate, checked |-> checked]
    ELSE IF i > Len(crs) THEN [kind |-> "starved", key |-> <<>>, update |-> NoUpdate, checked |-> checked]
    ELSE LET update == parse_signal_update(crs[i])
             g == update_guard(update)
             seen == Append(checked, LogEntry("Checking if message is an update", ms[i]))
         IN  IF g = "skip" THEN fallback_scan(ms, crs, i + 1, seen)
             ELSE [kind |-> g, key |-> ms[i], update |-> update, checked |-> seen]

\* lines 945-947 and 966-968: look the record up, apply the update, log the status
apply_to_existing(key, update, prefix) ==
    LET existing_signal == Get(active_signals, key)
        res == apply_signal_update(existing_signal, update, active_signals, closed_signals, now)
    IN  /\ active_signals' = res.active
        /\ closed_signals' = res.closed
        /\ calls' = <<Call(existing_signal, update, res)>>
        /\ log' = Append(prefix, LogEntry(res.status, key))
        /\ outcome' = "returned"

\* the handler leaves the registry alone and ends with the given log and outcome
no_change(entries, how) ==
    /\ log' = entries
    /\ outcome' = how
    /\ calls' = <<>>
    /\ UNCHANGED <<active_signals, closed_signals>>

\* update_path as it would be if the candidate were stored like a new signal
update_path_overwrite(text, sig, cresp) ==
    /\ active_signals' = Put(active_signals, sig.instrument, sig)
    /\ log' = <<LogEntry("Parsing message", text), LogEntry("already exists", sig.instrument)>>
    /\ outcome' = "returned"
    /\ calls' = <<>>
    /\ UNCHANGED closed_signals

\* the extractor returned a signal whose instrument is already a key
update_path(text, sig, cresp) ==
    LET update == parse_signal_update(cresp)
        g == update_guard(update)
        prefix == <<LogEntry("Parsing message", text), LogEntry("already exists", sig.instrument)>>
    IN  IF g = "apply" THEN apply_to_existing(sig.instrument, update, prefix)
        ELSE IF g = "raise" THEN no_change(prefix, "raised")
        ELSE no_change(prefix, "returned")

\* the extractor returned a signal whose instrument is not a key: it is stored and its
\* instrument, side, entry, tp and sl are logged
register_new(text, sig) ==
    /\ active_signals' = Put(active_signals, sig.instrument, sig)
    /\ log' = <<LogEntry("Parsing message", text), LogEntry("NEW SIGNAL PARSED", sig.instrument),
                LogEntry("Side", sig.side), LogEntry("Entry", sig.entry),
                LogEntry("TP", sig.tp), LogEntry("SL", sig.sl)>>
    /\ outcome' = "returned"
    /\ calls' = <<>>
    /\ UNCHANGED closed_signals

\* the extractor returned nothing; crs are the classifier's responses to the calls the
\* loop makes, one response for each call
fallback_path(text, crs) ==
    LET ms == Mentioned(active_signals, text)
        start == <<LogEntry("Parsing message", text), LogEntry("Could not parse signal", <<>>)>>
        r == fallback_scan(ms, crs, 1, start)
    IN  /\ r.kind # "starved"
        /\ Len(r.checked) = Len(start) + Len(crs)
        /\ IF r.kind = "apply" THEN apply_to_existing(r.key, r.update, r.checked)
           ELSE IF r.kind = "raise" THEN no_change(r.checked, "raised")
           ELSE no_change(r.checked, "returned")

\* monitor_signal_channel on a post with text from the signal channel
channel_post(text, resp) ==
    LET p == intelligent_signal_parser(resp, now, next_oid)
    IN  IF p.kind = "signal"
        THEN /\ next_oid' = next_oid + 1
             /\ IF HasKey(active_signals, p.sig.instrument)
                THEN \E cresp \in ClassifyResps : update_path(text, p.sig, cresp)
                ELSE register_new(text, p.sig)
        ELSE IF p.kind = "none"
        THEN /\ UNCHANGED next_oid
             /\ \E n \in 0..Len(Mentioned(active_signals, text)) :
                   \E crs \in [1..n -> ClassifyResps] : fallback_path(text, crs)
        ELSE /\ UNCHANGED next_oid
             /\ no_change(<<LogEntry("Parsing message", text)>>, "raised")

\* monitor_signal_channel: posts of another chat and posts without text are ignored
MonitorSignalChannel ==
    /\ now < MaxMsgs
    /\ \E from_signal_channel \in BOOLEAN, text \in Messages :
          IF ~from_signal_channel \/ text = <<>>
          THEN /\ no_change(<<LogEntry("Channel post received", <<>>)>>, "returned")
               /\ UNCHANGED next_oid
          ELSE \E resp \in ExtractResps : channel_post(text, resp)
    /\ now' = now + 1
    /\ UNCHANGED <<probe, tasks>>

(* ------------------------------ behaviours ------------------------------ *)

\* the channel handlers that may be in progress at the same time (used by SpecInterleaved)
Handlers == {1, 2}

\* the local state of one run of monitor_signal_channel:
\*   pc    "idle" (no run yet), "extract" (suspended at line 937), "classify" (suspended at
\*         line 943 or 964) or "done"
\*   text  message_text;  date  the time the post arrived
\*   path  "" (not decided), "ignored", "new", "update" (line 941) or "scan" (line 961)
\*   inst  signal.instrument (update path) or the loop variable instrument (scan)
\*   keys  what is left of list(active_signals.keys()) behind inst
\*   seen  the record that was stored under inst when the handler suspended on the
\*         classifier (NoSignal if there was none)
\*   lg    what the run has logged so far;  ended  how it ended ("" while it runs)
Task(pc, text, date, path, inst, keys, seen, lg, ended) ==
    [pc |-> pc, text |-> text, date |-> date, path |-> path, inst |-> inst, keys |-> keys,
     seen |-> seen, lg |-> lg, ended |-> ended]

IdleTask == Task("idle", <<>>, 0, "", <<>>, <<>>, NoSignal, <<>>, "")

Init ==
    /\ active_signals = <<>>
    /\ closed_signals = <<>>
    /\ now = 0
    /\ next_oid = 1
    /\ log = <<>>
    /\ calls = <<>>
    /\ outcome = "idle"
    /\ probe = <<>>
    /\ tasks = [h \in Handlers |-> IdleTask]

Next == HandleMessage \/ MonitorSignalChannel

Spec == Init /\ [][Next]_vars

(* -------------------------- extractor harness --------------------------- *)
(* The extractor is a function of the capability's response.  SpecExtract  *)
(* lets the channel handler fill the registry and then offers one private  *)
(* chat message to handle_message, with a response drawn from              *)
(* AllExtractResps; probe keeps the response and what the extractor        *)
(* returned for it.                                                        *)

\* what probe keeps of one run of the extractor
Probe(resp, result) == [resp |-> resp, result |-> result]

\* handle_message on a private chat message (with text, not rate-limited)
ProbeExtractor ==
    /\ probe = <<>>
    /\ now < MaxMsgs
    /\ \E resp \in AllExtractResps :
          /\ handle_message_private(resp)
          /\ probe' = <<Probe(resp, intelligent_signal_parser(resp, now, next_oid))>>
    /\ now' = now + 1
    /\ calls' = <<>>
    /\ UNCHANGED <<closed_signals, tasks>>

\* the channel handler, while the extractor has not been probed
FillRegistry ==
    /\ probe = <<>>
    /\ now < MaxProbeDepth
    /\ MonitorSignalChannel

NextExtract == FillRegistry \/ ProbeExtractor

SpecExtract == Init /\ [][NextExtract]_vars

(* ----------------------- interleaved channel handlers ------------------- *)
(* monitor_signal_channel awaits the extractor at line 937 and the          *)
(* classifier at lines 943 and 964.  The client of line 38 is the blocking  *)
(* one and the dispatcher awaits each handler, so in the program as built   *)
(* no other handler runs during these awaits: that is Spec.                 *)
(* SpecInterleaved is the schedule in which the awaits do suspend: several  *)
(* runs of the channel handler are in progress, each one runs without       *)
(* interruption from one await to the next, and any suspended run may be    *)
(* the next to resume.  The clock ticks once for each post.                 *)

\* number of channel posts dispatched in one behaviour of SpecInterleaved
MaxPosts == 3

\* the extractor's responses in SpecInterleaved: a candidate for EU, one for U, no signal
RaceExtractResps ==
    {ExtractText(FALSE, "object", CandA), ExtractText(FALSE, "object", CandC), ExtractError}

\* the classifier's responses in SpecInterleaved
RaceClassifyResps ==
    {ClassifyText(FALSE, "object", a, Absent) : a \in {"breakeven", "close_trade", "other"}}
    \cup {ClassifyText(FALSE, "array", "ABSENT", Absent)}

\* already_active as it would be without the test of line 941
already_active_unchecked(reg, sig) == FALSE

\* `signal.instrument in active_signals`
already_active(reg, sig) == HasKey(reg, sig.instrument)

\* the run of handler h ends
end_task(h, path, inst, lg, ended) ==
    /\ tasks' = [tasks EXCEPT ![h] =
                    [@ EXCEPT !.pc = "done", !.path = path, !.inst = inst, !.lg = lg, !.ended = ended]]
    /\ log' = lg
    /\ outcome' = ended

\* handler h suspends on the classifier, asked about inst
suspend_on_classifier(h, path, inst, keys, lg) ==
    /\ tasks' = [tasks EXCEPT ![h] =
                    Task("classify", @.text, @.date, path, inst, keys,
                         IF HasKey(active_signals, inst) THEN Get(active_signals, inst) ELSE NoSignal,
                         lg, "")]
    /\ log' = lg
    /\ outcome' = "suspended"

\* the keys from the first one the text mentions (the test of line 962)
RECURSIVE skip_unmentioned(_, _)
skip_unmentioned(keys, text) ==
    IF keys = <<>> THEN <<>>
    ELSE IF mentions(text, keys[1]) THEN keys
    ELSE skip_unmentioned(Tail(keys), text)

\* the loop of line 961 goes on over keys: it suspends on the classifier at the next key
\* the text mentions, or ends when there is none
scan_next(h, keys, lg) ==
    LET ks == skip_unmentioned(keys, tasks[h].text)
    IN  IF ks = <<>>
        THEN end_task(h, "scan", <<>>, lg, "returned")
        ELSE suspend_on_classifier(h, "scan", ks[1], Tail(ks),
                                   Append(lg, LogEntry("Checking if message is an update", ks[1])))

\* lines 923-937: a post arrives; the handler checks chat and text and calls the extractor
StartPost(h) ==
    /\ tasks[h].pc \in {"idle", "done"}
    /\ now < MaxPosts
    /\ \E from_signal_channel \in BOOLEAN, text \in Messages :
          IF ~from_signal_channel \/ text = <<>>
          THEN /\ tasks' = [tasks EXCEPT ![h] =
                               Task("done", text, now, "ignored", <<>>, <<>>, NoSignal,
                                    <<LogEntry("Channel post received", <<>>)>>, "returned")]
               /\ log' = <<LogEntry("Channel post received", <<>>)>>
               /\ outcome' = "returned"
          ELSE /\ tasks' = [tasks EXCEPT ![h] =
                               Task("extract", text, now, "", <<>>, <<>>, NoSignal,
                                    <<LogEntry("Parsing message", text)>>, "")]
               /\ log' = <<LogEntry("Parsing message", text)>>
               /\ outcome' = "suspended"
    /\ now' = now + 1
    /\ calls' = <<>>
    /\ UNCHANGED <<active_signals, closed_signals, next_oid, probe>>

\* lines 937-964: the extractor returns.  A candidate is registered at once if its
\* instrument is not a key, otherwise the handler calls the classifier; with no candidate
\* the handler takes the list of keys and starts the loop
ResumeExtractor(h) ==
    /\ tasks[h].pc = "extract"
    /\ \E resp \in RaceExtractResps :
          LET p == intelligent_signal_parser(resp, now, next_oid)
              t == tasks[h]
          IN  IF p.kind = "signal"
              THEN /\ next_oid' = next_oid + 1
                   /\ IF already_active(active_signals, p.sig)
                      THEN /\ suspend_on_classifier(h, "update", p.sig.instrument, <<>>,
                                  Append(t.lg, LogEntry("already exists", p.sig.instrument)))
                           /\ UNCHANGED active_signals
                      ELSE /\ active_signals' = Put(active_signals, p.sig.instrument, p.sig)
                           /\ end_task(h, "new", p.sig.instrument,
                                  t.lg \o <<LogEntry("NEW SIGNAL PARSED", p.sig.instrument),
                                            LogEntry("Side", p.sig.side), LogEntry("Entry", p.sig.entry),
                                            LogEntry("TP", p.sig.tp), LogEntry("SL", p.sig.sl)>>,
                                  "returned")
              ELSE IF p.kind = "none"
              THEN /\ scan_next(h, Keys(active_signals), Append(t.lg, LogEntry("Could not parse signal", <<>>)))
                   /\ UNCHANGED <<active_signals, next_oid>>
              ELSE /\ end_task(h, "", <<>>, t.lg, "raised")
                   /\ UNCHANGED <<active_signals, next_oid>>
    /\ calls' = <<>>
    /\ UNCHANGED <<closed_signals, now, probe>>

\* lookup_and_apply as it would be if the record had been fetched before the await
lookup_and_apply_stale(h, update) ==
    LET t == tasks[h]
        res == apply_signal_update(t.seen, update, active_signals, closed_signals, now)
    IN  /\ active_signals' = res.active
        /\ closed_signals' = res.closed
        /\ calls' = <<Call(t.seen, update, res)>>
        /\ end_task(h, t.path, t.inst, Append(t.lg, LogEntry(res.status, t.inst)), "returned")

\* lines 945-947 and 966-969: existing_signal = active_signals[instrument] raises KeyError
\* if the key is gone; otherwise the update is applied to the record found
lookup_and_apply(h, update) ==
    LET t == tasks[h]
    IN  IF HasKey(active_signals, t.inst)
        THEN LET existing_signal == Get(active_signals, t.inst)
                 res == apply_signal_update(existing_signal, update, active_signals, closed_signals, now)
             IN  /\ active_signals' = res.active
                 /\ closed_signals' = res.closed
                 /\ calls' = <<Call(existing_signal, update, res)>>
                 /\ end_task(h, t.path, t.inst, Append(t.lg, LogEntry(res.status, t.inst)), "returned")
        ELSE /\ end_task(h, t.path, t.inst, t.lg, "KeyError")
             /\ calls' = <<>>
             /\ UNCHANGED <<active_signals, closed_signals>>

\* lines 943-947 and 964-969: the classifier returns
ResumeClassifier(h) ==
    /\ tasks[h].pc = "classify"
    /\ \E cresp \in RaceClassifyResps :
          LET update == parse_signal_update(cresp)
              g == update_guard(update)
              t == tasks[h]
          IN  IF g = "apply" THEN lookup_and_apply(h, update)
              ELSE /\ IF g = "raise" THEN end_task(h, t.path, t.inst, t.lg, "raised")
                      ELSE IF t.path = "update" THEN end_task(h, t.path, t.inst, t.lg, "returned")
                      ELSE scan_next(h, t.keys, t.lg)
                   /\ calls' = <<>>
                   /\ UNCHANGED <<active_signals, closed_signals>>
    /\ UNCHANGED <<now, next_oid, probe>>

NextInterleaved ==
    \E h \in Handlers : StartPost(h) \/ ResumeExtractor(h) \/ ResumeClassifier(h)

SpecInterleaved == Init /\ [][NextInterleaved]_vars

(* ------------------------- reading the last run ------------------------- *)

\* the last run was monitor_signal_channel on a post with text from the signal channel
ChannelRun(l) == Len(l) >= 1 /\ l[1].ev = "Parsing message"

\* ... and the extractor's candidate named an instrument that was already a key
UpdateRun(l) == ChannelRun(l) /\ Len(l) >= 2 /\ l[2].ev = "already exists"

\* ... and the extractor returned nothing
FallbackRun(l) == ChannelRun(l) /\ Len(l) >= 2 /\ l[2].ev = "Could not parse signal"

\* the instruments the last run offered to the classifier, in order
Classified(l) ==
    LET es == SelectSeq(l, LAMBDA e : e.ev \in {"already exists", "Checking if message is an update"})
    IN  [i \in 1..Len(es) |-> es[i].inst]

\* the objects the registry holds
Oids(reg) == {reg[i].sig.oid : i \in 1..Len(reg)}

\* the number of snapshots closed-history holds for instrument x
Snapshots(closed, x) == Cardinality({i \in 1..Len(closed) : closed[i].instrument = x})

\* s is an initial segment of r
IsPrefix(s, r) == Len(s) <= Len(r) /\ SubSeq(r, 1, Len(s)) = s

\* the last run applied close_trade to the object oid
ClosedBy(cs, oid) ==
    Len(cs) = 1 /\ action_of(cs[1].update) = "close_trade" /\ cs[1].before.oid = oid

(* ------------------------------- C1 ------------------------------------- *)
\* C1: in every step each record of the active registry either stays stored under its key
\* (the same object), or is removed by a close_trade of this step that appends its snapshot
\* to closed-history; no handler deletes or replaces an active record in any other way.
C1_RemovedOnlyByClose ==
    [][\A i \in 1..Len(active_signals) :
          LET e == active_signals[i]
          IN  \/ /\ HasKey(active_signals', e.key)
                 /\ Get(active_signals', e.key).oid = e.sig.oid
              \/ /\ ~HasKey(active_signals', e.key)
                 /\ ClosedBy(calls', e.sig.oid)
                 /\ closed_signals' = Append(closed_signals, to_dict(calls'[1].after))]_vars

(* ------------------------------- C2 ------------------------------------- *)
\* C2: when a channel post yields a full candidate for an instrument X that is already
\* active, the candidate is discarded: afterwards the record under X is the same object with
\* the same instrument, side, entry and timestamp, and its tp (sl) differs only if the
\* classifier returned move_take_profit (move_stop_loss), in which case it is the classifier's
\* value; X leaves the registry only if the classifier returned close_trade.
C2_CandidateDiscarded ==
    [][UpdateRun(log') =>
          LET x == log'[2].inst
          IN  /\ HasKey(active_signals, x)
              /\ LET old == Get(active_signals, x)
                 IN  IF HasKey(active_signals', x)
                     THEN LET new == Get(active_signals', x)
                          IN  /\ new.oid = old.oid
                              /\ new.instrument = old.instrument
                              /\ new.side = old.side
                              /\ new.entry = old.entry
                              /\ new.timestamp = old.timestamp
                              /\ new.tp # old.tp =>
                                    /\ Len(calls') = 1
                                    /\ action_of(calls'[1].update) = "move_take_profit"
                                    /\ new.tp = value_of(calls'[1].update)
                              /\ new.sl # old.sl =>
                                    /\ Len(calls') = 1
                                    /\ action_of(calls'[1].update) = "move_stop_loss"
                                    /\ new.sl = value_of(calls'[1].update)
                     ELSE ClosedBy(calls', old.oid)]_vars

\* a candidate for EU arrived while EU was active with other prices, the classifier said
\* move_take_profit 3, and the record under EU is still the first object, now with tp 3
C2_Witness ==
    /\ UpdateRun(log)
    /\ log[2].inst = EU
    /\ Len(calls) = 1
    /\ action_of(calls[1].update) = "move_take_profit"
    /\ HasKey(active_signals, EU)
    /\ Get(active_signals, EU).oid = calls[1].before.oid
    /\ Get(active_signals, EU).tp = PyNum(3)
    /\ Get(active_signals, EU).oid < next_oid - 1

(* ------------------------------- C3 ------------------------------------- *)
\* the actions for which apply_signal_update appends an audit entry
AuditedActions ==
    {"breakeven", "take_partial_profit", "move_stop_loss", "move_take_profit", "close_trade"}

C4_ClosedForGood ==
    \A i \in 1..Len(closed_signals) :
        LET x == closed_signals[i].instrument
        IN  ~HasKey(active_signals, x) /\ Snapshots(closed_signals, x) = 1

\* C4 amended: right after close_trade has been applied to the active record of X, X is absent
\* from the active registry and closed-history has gained exactly one entry, the snapshot of
\* that record with status CLOSED; closed-history is append-only, so the snapshot stays in
\* every later state, but a later message may register a new record for X and a later
\* close_trade may add a further snapshot for X.
C4_TerminalTransition ==
    [][/\ IsPrefix(closed_signals, closed_signals')
       /\ Len(closed_signals') <= Len(closed_signals) + 1
       /\ (Len(calls') = 1 /\ action_of(calls'[1].update) = "close_trade") =>
             LET x == calls'[1].before.instrument
             IN  /\ ~HasKey(active_signals', x)
                 /\ closed_signals' = Append(closed_signals, [to_dict(calls'[1].before) EXCEPT !.status = "CLOSED"])
                 /\ closed_signals'[Len(closed_signals')].instrument = x
                 /\ closed_signals'[Len(closed_signals')].status = "CLOSED"
       /\ Len(closed_signals') = Len(closed_signals) + 1 =>
             Len(calls') = 1 /\ action_of(calls'[1].update) = "close_trade"]_vars

\* close_trade has just been applied to the record of EU: EU is not active and the last
\* entry of closed-history is its snapshot
C4_Witness ==
    /\ Len(calls) = 1
    /\ action_of(calls[1].update) = "close_trade"
    /\ calls[1].before.instrument = EU
    /\ ~HasKey(active_signals, EU)
    /\ Len(closed_signals) >= 1
    /\ closed_signals[Len(closed_signals)].instrument = EU
    /\ closed_signals[Len(closed_signals)].status = "CLOSED"

(* ------------------------------- C5 ------------------------------------- *)
\* C5: a move_stop_loss or move_take_profit without a numeric value leaves sl and tp as they
\* were and still appends one audit entry, and the sl and tp of every active record are
\* numbers in every reachable state.
C5_NoMissingValueWritten ==
    /\ \A i \in 1..Len(calls) :
          (/\ action_of(calls[i].update) \in {"move_stop_loss", "move_take_profit"}
           /\ ~IsNumber(value_of(calls[i].update))) =>
             /\ calls[i].after.sl = calls[i].before.sl
             /\ calls[i].after.tp = calls[i].before.tp
             /\ Len(calls[i].after.updates_history) = Len(calls[i].before.updates_history) + 1
    /\ \A i \in 1..Len(active_signals) :
          IsNumber(active_signals[i].sig.sl) /\ IsNumber(active_signals[i].sig.tp)

(* ------------------------------- C6 ------------------------------------- *)
\* the value is a number or a string that spells one
Numeric(v) == v.t = "num" \/ (v.t = "str" /\ v.s \in {<<"1">>, <<"2">>, <<"3">>})

\* the response is a transport failure, is not a structured record, lacks one of the five
\* fields, or carries a non-numeric entry, tp or sl
Deficient(resp) ==
    \/ resp.kind = "error"
    \/ resp.j # "object"
    \/ \E k \in {"instrument", "side", "entry", "tp", "sl"} : resp.d[k] = Absent
    \/ \E k \in {"entry", "tp", "sl"} : ~Numeric(resp.d[k])

\* C6: for every deficient response the extractor returns 'no signal found' (never a record,
\* never an error), and the step leaves the active registry and closed-history unchanged.
C6_NoSignalOnDeficientResponse ==
    [][\A i \in 1..Len(probe') :
          Deficient(probe'[i].resp) =>
             /\ probe'[i].result.kind = "none"
             /\ probe'[i].result.sig = NoSignal
             /\ outcome' = "returned"
             /\ active_signals' = active_signals
             /\ closed_signals' = closed_signals
             /\ next_oid' = next_oid]_vars

\* EU is active and the extractor was run on an object for EU that has no sl
C6_Witness ==
    /\ Len(probe) = 1
    /\ probe[1].resp.j = "object"
    /\ probe[1].resp.d.instrument = PyStr(eu)
    /\ probe[1].resp.d.tp = PyStr(<<"2">>)
    /\ probe[1].resp.d.sl = Absent
    /\ probe[1].result.kind = "none"
    /\ HasKey(active_signals, EU)

(* ------------------------------- C7 ------------------------------------- *)
\* the last run called the classifier
ClassifierRun(l) == ChannelRun(l) /\ Len(Classified(l)) >= 1

\* C7: whatever the classifier's response, the channel handler returns without raising, and
\* the registry changes only if one of the recognised mutating actions was returned.
C7_ClassifierNeverFatal ==
    [][ClassifierRun(log') =>
          /\ outcome' = "returned"
          /\ (active_signals' # active_signals \/ closed_signals' # closed_signals) =>
                Len(calls') = 1 /\ action_of(calls'[1].update) \in AuditedActions]_vars

(* ------------------------------- C8 ------------------------------------- *)
\* every record except the one under key k is where and as it was
OthersUntouched(k) ==
    \A i \in 1..Len(active_signals) :
        active_signals[i].key # k =>
            /\ HasKey(active_signals', active_signals[i].key)
            /\ Get(active_signals', active_signals[i].key) = active_signals[i].sig

\* C8 as stated: when the extractor yields nothing, the classifier is run only against the
\* first active instrument (in registry order) the message mentions, and no later-matching
\* instrument is classified or mutated.
C8_OnlyFirstMatch ==
    [][FallbackRun(log') =>
          LET ms == Mentioned(active_signals, log'[1].inst)
          IN  /\ Classified(log') = (IF ms = <<>> THEN <<>> ELSE <<ms[1]>>)
              /\ ms # <<>> => OthersUntouched(ms[1])]_vars

\* C8 amended: when the extractor yields nothing, the classifier is run against the active
\* instruments the message mentions, one after the other in registry order, until one
\* classification is applied (a non-empty object whose action is not `other`) or makes the
\* handler fail; the update is applied to that instrument only, no earlier-classified and
\* no later-matching instrument is mutated, and no later-matching one is classified.  If no
\* classification is applied, every mentioned instrument has been classified.
C8_FirstApplicableMatch ==
    [][FallbackRun(log') =>
          LET ms == Mentioned(active_signals, log'[1].inst)
              cl == Classified(log')
          IN  /\ IsPrefix(cl, ms)
              /\ calls' # <<>> =>
                    /\ cl # <<>>
                    /\ Len(calls') = 1
                    /\ calls'[1].before = Get(active_signals, cl[Len(cl)])
                    /\ calls'[1].update.action # "other"
                    /\ OthersUntouched(cl[Len(cl)])
              /\ calls' = <<>> =>
                    /\ active_signals' = active_signals
                    /\ closed_signals' = closed_signals
                    /\ outcome' = "returned" => cl = ms]_vars

\* two active instruments were mentioned, the first classification was not applied, the
\* second was
C8_Witness ==
    /\ FallbackRun(log)
    /\ Len(Classified(log)) = 2
    /\ Len(calls) = 1
    /\ calls[1].before.instrument = Classified(log)[2]
    /\ HasKey(active_signals, Classified(log)[1])

(* ------------------------------- C9 ------------------------------------- *)
\* C9: every record of the active registry has status ACTIVE and every closed-history entry
\* has status CLOSED; an object whose status became CLOSED is not stored in the registry
\* again: every object of the registry was in it a step before, with status ACTIVE, or is new.
C9_StatusMatchesCollection ==
    /\ [](/\ \A i \in 1..Len(active_signals) : active_signals[i].sig.status = "ACTIVE"
          /\ \A i \in 1..Len(closed_signals) : closed_signals[i].status = "CLOSED")
    /\ [][/\ \A i \in 1..Len(active_signals') :
                \/ active_signals'[i].sig.oid >= next_oid
                \/ \E j \in 1..Len(active_signals) :
                      /\ active_signals[j].sig.oid = active_signals'[i].sig.oid
                      /\ active_signals[j].sig.status = "ACTIVE"
          /\ \A i \in 1..Len(calls') :
                calls'[i].after.status = "CLOSED" => calls'[i].after.oid \notin Oids(active_signals')]_vars

\* EU was closed and a new record for EU is active
C9_Witness ==
    /\ HasKey(active_signals, EU)
    /\ Get(active_signals, EU).status = "ACTIVE"
    /\ \E i \in 1..Len(closed_signals) :
          closed_signals[i].instrument = EU /\ closed_signals[i].status = "CLOSED"

(* ------------------------------- C10 ------------------------------------ *)
\* the field an action may change, besides updates_history
FieldOf(action) ==
    CASE action = "breakeven" -> {"breakeven_level"}
      [] action = "take_partial_profit" -> {"partial_profits"}
      [] action = "move_stop_loss" -> {"sl"}
      [] action = "move_take_profit" -> {"tp"}
      [] action = "close_trade" -> {"status"}
      [] OTHER -> {}

\* the fields in which two records differ
Changed(b, a) == {f \in DOMAIN b : a[f] # b[f]}

\* C10: a call of the reconciler changes, besides updates_history, only the field its action
\* names (and nothing for add_position, other or an unknown action); the record in the
\* registry is the object the call worked on, every other record is untouched, and only
\* close_trade changes registry membership and closed-history.
C10_FrameOfReconciler ==
    [][\A i \in 1..Len(calls') :
          LET b == calls'[i].before
              a == calls'[i].after
              action == action_of(calls'[i].update)
          IN  /\ Changed(b, a) \subseteq (FieldOf(action) \cup {"updates_history"})
              /\ action \notin AuditedActions => a = b
              /\ HasKey(active_signals, b.instrument)
              /\ Get(active_signals, b.instrument) = b
              /\ OthersUntouched(b.instrument)
              /\ IF action = "close_trade"
                 THEN /\ Len(active_signals') = Len(active_signals) - 1
                      /\ ~HasKey(active_signals', b.instrument)
                 ELSE /\ Keys(active_signals') = Keys(active_signals)
                      /\ Get(active_signals', b.instrument) = a
                      /\ closed_signals' = closed_signals]_vars

\* the stop loss of a record that already has a partial profit was moved to 3
C10_Witness ==
    /\ Len(calls) = 1
    /\ action_of(calls[1].update) = "move_stop_loss"
    /\ calls[1].after.sl = PyNum(3)
    /\ calls[1].before.sl # PyNum(3)
    /\ Len(calls[1].before.partial_profits) >= 1
    /\ HasKey(active_signals, calls[1].after.instrument)
    /\ Get(active_signals, calls[1].after.instrument) = calls[1].after

(* ------------------------------- C11 ------------------------------------ *)
\* instrument x has a snapshot in closed-history and no ACTIVE record in the registry
ClosedNotActive(x) ==
    /\ Snapshots(closed_signals, x) >= 1
    /\ ~(HasKey(active_signals, x) /\ Get(active_signals, x).status = "ACTIVE")

\* C11: a channel post that carries no candidate and names an instrument x which has been
\* closed and has no active record is a no-op for x: the classifier is not asked about x,
\* no update is applied to a record of x, x stays out of the registry and closed-history
\* gains no further snapshot of x; if the post names no active instrument either, the
\* registry and closed-history are left exactly as they were.
C11_SecondCloseIsNoOp ==
    [][FallbackRun(log') =>
          \A i \in 1..Len(closed_signals) :
              LET x == closed_signals[i].instrument
                  text == log'[1].inst
              IN  (ClosedNotActive(x) /\ mentions(text, x)) =>
                     /\ \A j \in 1..Len(Classified(log')) : Classified(log')[j] # x
                     /\ \A j \in 1..Len(calls') : calls'[j].before.instrument # x
                     /\ Snapshots(closed_signals', x) = Snapshots(closed_signals, x)
                     /\ ~HasKey(active_signals', x)
                     /\ (\A j \in 1..Len(active_signals) : ~mentions(text, active_signals[j].key)) =>
                           /\ active_signals' = active_signals
                           /\ closed_signals' = closed_signals
                           /\ calls' = <<>>]_vars

\* EU was closed by an earlier post; the last post named EU again, carried no candidate,
\* and left EU out of the registry with its single snapshot
C11_Witness ==
    /\ FallbackRun(log)
    /\ mentions(log[1].inst, EU)
    /\ ClosedNotActive(EU)
    /\ Snapshots(closed_signals, EU) = 1
    /\ calls = <<>>
    /\ outcome = "returned"

(* ------------------------------- C12 ------------------------------------ *)
BUY == <<"B", "U", "Y">>

SELL == <<"S", "E", "L", "L">>

\* C12: every record of the active registry and every closed-history snapshot has side BUY
\* or SELL (a response with any other side yields no record).
C12_SideIsBuyOrSell ==
    /\ \A i \in 1..Len(active_signals) : active_signals[i].sig.side \in {BUY, SELL}
    /\ \A i \in 1..Len(closed_signals) : closed_signals[i].side \in {BUY, SELL}

(* ------------------------------- C13 ------------------------------------ *)
\* the last run was a channel post from which the extractor built a candidate
CandidateRun(l) ==
    ChannelRun(l) /\ Len(l) >= 2 /\ l[2].ev \in {"already exists", "NEW SIGNAL PARSED"}

\* C13: when a channel post yields a candidate for an instrument x that is not in the
\* registry, the run takes the new-signal path and afterwards the registry maps x, as its
\* last key, to a record with the candidate's instrument, side, entry, tp and sl, status
\* ACTIVE, no breakeven_level and empty partial_profits and updates_history; every other
\* entry of the registry and closed-history are as they were.
C13_RegisteredAsNew ==
    [][(CandidateRun(log') /\ ~HasKey(active_signals, log'[2].inst)) =>
          LET x == log'[2].inst
          IN  /\ log'[2].ev = "NEW SIGNAL PARSED"
              /\ Keys(active_signals') = Append(Keys(active_signals), x)
              /\ LET new == Get(active_signals', x)
                 IN  /\ new.instrument = x
                     /\ new.side = log'[3].inst
                     /\ new.entry = log'[4].inst
                     /\ new.tp = log'[5].inst
                     /\ new.sl = log'[6].inst
                     /\ IsNumber(new.entry) /\ IsNumber(new.tp) /\ IsNumber(new.sl)
                     /\ new.status = "ACTIVE"
                     /\ new.breakeven_level = PyNone
                     /\ new.partial_profits = <<>>
                     /\ new.updates_history = <<>>
                     /\ new.oid \notin Oids(active_signals)
              /\ \A i \in 1..Len(active_signals) : active_signals'[i] = active_signals[i]
              /\ closed_signals' = closed_signals]_vars

\* EU was registered by the last post, with the prices of its candidate, behind a record of
\* U that already has an audit entry
C13_Witness ==
    /\ CandidateRun(log)
    /\ log[2].ev = "NEW SIGNAL PARSED"
    /\ log[2].inst = EU
    /\ Len(active_signals) = 2
    /\ active_signals[2].key = EU
    /\ active_signals[2].sig.side = BUY
    /\ active_signals[2].sig.entry = PyNum(1)
    /\ active_signals[2].sig.tp = PyNum(2)
    /\ active_signals[2].sig.sl = PyNum(0)
    /\ active_signals[2].sig.updates_history = <<>>
    /\ Len(active_signals[1].sig.updates_history) >= 1

(* ------------------------------- C14 ------------------------------------ *)
\* the record sig has a breakeven level
BreakevenSet(sig) == sig.breakeven_level # PyNone

\* C14: a breakeven call sets breakeven_level to the record's entry, appends one audit entry
\* and leaves the record ACTIVE in the registry under its instrument; a record's entry
\* never changes; and once breakeven_level is set it keeps its value, equal to the entry,
\* through every later call on the record, for as long as the record is in the registry,
\* and in its closed-history snapshot.
C14_BreakevenSetForGood ==
    /\ [][\A i \in 1..Len(calls') :
             LET b == calls'[i].before
                 a == calls'[i].after
             IN  /\ a.entry = b.entry
                 /\ BreakevenSet(b) => a.breakeven_level = b.breakeven_level
                 /\ action_of(calls'[i].update) = "breakeven" =>
                       /\ a.breakeven_level = b.entry
                       /\ Len(a.updates_history) = Len(b.updates_history) + 1
                       /\ a.status = "ACTIVE"
                       /\ HasKey(active_signals', a.instrument)
                       /\ Get(active_signals', a.instrument) = a]_vars
    /\ [][\A i \in 1..Len(active_signals) : \A j \in 1..Len(active_signals') :
             active_signals'[j].sig.oid = active_signals[i].sig.oid =>
                /\ active_signals'[j].sig.entry = active_signals[i].sig.entry
                /\ BreakevenSet(active_signals[i].sig) =>
                      active_signals'[j].sig.breakeven_level = active_signals[i].sig.breakeven_level]_vars
    /\ [](/\ \A i \in 1..Len(active_signals) :
                BreakevenSet(active_signals[i].sig) =>
                   active_signals[i].sig.breakeven_level = active_signals[i].sig.entry
          /\ \A i \in 1..Len(closed_signals) :
                closed_signals[i].breakeven_level # PyNone =>
                   closed_signals[i].breakeven_level = closed_signals[i].entry)

\* the stop loss of a record whose breakeven level was set earlier has just been moved, and
\* the record in the registry still has its breakeven level at its entry
C14_Witness ==
    /\ Len(calls) = 1
    /\ action_of(calls[1].update) = "move_stop_loss"
    /\ BreakevenSet(calls[1].before)
    /\ HasKey(active_signals, calls[1].after.instrument)
    /\ Get(active_signals, calls[1].after.instrument) = calls[1].after
    /\ calls[1].after.breakeven_level = calls[1].after.entry
    /\ calls[1].after.sl # calls[1].before.sl

(* ------------------------------- C15 ------------------------------------ *)
\* C15: a take_partial_profit call appends exactly one entry {level, timestamp} at the end
\* of the record's partial_profits, with the update's value as level; every other call
\* leaves partial_profits as it was; and from one state to the next the partial_profits of
\* every record that stays in the registry keeps its earlier entries in place and in order.
C15_PartialProfitsAppendOnly ==
    [][/\ \A i \in 1..Len(calls') :
             LET b == calls'[i].before.partial_profits
                 a == calls'[i].after.partial_profits
             IN  IF action_of(calls'[i].update) = "take_partial_profit"
                 THEN /\ Len(a) = Len(b) + 1
                      /\ IsPrefix(b, a)
                      /\ DOMAIN a[Len(a)] = {"level", "timestamp"}
                      /\ a[Len(a)].level = value_of(calls'[i].update)
                 ELSE a = b
       /\ \A i \in 1..Len(active_signals) : \A j \in 1..Len(active_signals') :
             active_signals'[j].sig.oid = active_signals[i].sig.oid =>
                /\ IsPrefix(active_signals[i].sig.partial_profits, active_signals'[j].sig.partial_profits)
                /\ Len(active_signals'[j].sig.partial_profits)
                      <= Len(active_signals[i].sig.partial_profits) + 1
       /\ Len(closed_signals') > Len(closed_signals) =>
             /\ Len(calls') = 1
             /\ closed_signals'[Len(closed_signals')].partial_profits = calls'[1].before.partial_profits]_vars

\* a record that already had a partial profit took a second one, at a later time
C15_Witness ==
    /\ Len(calls) = 1
    /\ action_of(calls[1].update) = "take_partial_profit"
    /\ Len(calls[1].before.partial_profits) = 1
    /\ Len(calls[1].after.partial_profits) = 2
    /\ calls[1].after.partial_profits[1] = calls[1].before.partial_profits[1]
    /\ calls[1].after.partial_profits[2].timestamp # calls[1].after.partial_profits[1].timestamp
    /\ Get(active_signals, calls[1].after.instrument) = calls[1].after

(* ------------------------------- C16 ------------------------------------ *)
\* the text contains the name, whatever the case of the letters on either side: some
\* stretch of the text, put in upper case, is the name put in upper case
ContainsName(text, name) ==
    \E i \in 1..Len(text) : \E j \in i..Len(text) : Upper(SubSeq(text, i, j)) = Upper(name)

\* C16: a channel post from which the extractor builds nothing and whose text contains the
\* name of no instrument of the registry is dropped: the registry (its keys, their order
\* and every field of every record) and closed-history are unchanged, the classifier is
\* not called, no update is applied and the handler returns.
C16_UnmatchedPostDropped ==
    [][(FallbackRun(log') /\ \A i \in 1..Len(active_signals) :
                                 ~ContainsName(log'[1].inst, active_signals[i].key)) =>
          /\ active_signals' = active_signals
          /\ closed_signals' = closed_signals
          /\ Classified(log') = <<>>
          /\ calls' = <<>>
          /\ outcome' = "returned"
          /\ Len(log') = 2]_vars

\* the last post carried no candidate and named none of the instruments of the registry,
\* which holds a record with an audit entry
C16_Witness ==
    /\ FallbackRun(log)
    /\ Len(log) = 2
    /\ Len(active_signals) >= 1
    /\ \A i \in 1..Len(active_signals) : ~ContainsName(log[1].inst, active_signals[i].key)
    /\ \E i \in 1..Len(active_signals) : Len(active_signals[i].sig.updates_history) >= 1
    /\ outcome = "returned"

(* ------------------------------- C17 ------------------------------------ *)
\* the keys of the registry, in order, whose name the text contains in any letter case
Named(reg, text) == SelectSeq(Keys(reg), LAMBDA k : ContainsName(text, k))

\* C17: every key of the registry is in upper case; in the fallback path the first key (in
\* registry order) whose name the text contains in lower, upper or mixed case is offered to
\* the classifier, every key offered to the classifier is one whose name the text contains,
\* and if the text contains no key's name the classifier is not called at all.
C17_CaseInsensitiveMatch ==
    /\ [](\A i \in 1..Len(active_signals) : active_signals[i].key = Upper(active_signals[i].key))
    /\ [][FallbackRun(log') =>
             LET text == log'[1].inst
                 named == Named(active_signals, text)
                 cl == Classified(log')
             IN  /\ \A j \in 1..Len(cl) : ContainsName(text, cl[j]) /\ HasKey(active_signals, cl[j])
                 /\ IsPrefix(cl, named)
                 /\ named # <<>> => (cl # <<>> /\ cl[1] = named[1])
                 /\ named = <<>> => cl = <<>>]_vars

\* EU is active and the last post, which carried no candidate, spelled it "xEu": the
\* classifier was asked about EU
C17_Witness ==
    /\ FallbackRun(log)
    /\ log[1].inst = <<"x", "E", "u">>
    /\ HasKey(active_signals, EU) \/ (Len(calls) = 1 /\ calls[1].before.instrument = EU)
    /\ Classified(log) # <<>>
    /\ Classified(log)[1] = EU

(* ------------------------------- C18 ------------------------------------ *)
\* this step is handler h resuming from its await on the classifier
ResumedFromClassifier(h) == tasks[h].pc = "classify" /\ tasks'[h] # tasks[h]

\* C18 as stated: under SpecInterleaved a handler that saw its instrument in the registry
\* before it suspended on the classifier finds it there when it resumes: its lookup never
\* fails.
C18_LookupFindsInstrument ==
    [][\A h \in Handlers :
          (ResumedFromClassifier(h) /\ tasks[h].seen # NoSignal) => outcome' # "KeyError"]_vars

\* C18 amended: under SpecInterleaved a handler looks its instrument x up in the registry as
\* it is when the handler resumes from the classifier.  If x is no longer a key the resumed
\* handler changes neither the registry nor closed-history and applies no update (its lookup
\* fails); an update that is applied is applied to the record stored under x at that
\* moment.  While a handler is suspended on the classifier, x leaves the registry only by
\* another handler's close_trade, which appends the snapshot of the removed record.
C18_LookupAtResumption ==
    [][\A h \in Handlers :
          LET x == tasks[h].inst
          IN  /\ ResumedFromClassifier(h) =>
                    /\ calls' # <<>> =>
                          /\ HasKey(active_signals, x)
                          /\ Len(calls') = 1
                          /\ calls'[1].before = Get(active_signals, x)
                    /\ ~HasKey(active_signals, x) =>
                          /\ active_signals' = active_signals
                          /\ closed_signals' = closed_signals
                          /\ calls' = <<>>
                    /\ outcome' = "KeyError" => ~HasKey(active_signals, x)
              /\ (/\ tasks[h].pc = "classify"
                  /\ tasks'[h] = tasks[h]
                  /\ HasKey(active_signals, x)
                  /\ ~HasKey(active_signals', x)) =>
                    /\ ClosedBy(calls', Get(active_signals, x).oid)
                    /\ closed_signals' = Append(closed_signals, to_dict(calls'[1].after))]_vars

\* a handler saw a record under its instrument, suspended on the classifier, and its lookup
\* failed when it resumed: the instrument is not a key and closed-history holds the snapshot
\* of the record the handler had seen
C18_Witness ==
    /\ outcome = "KeyError"
    /\ \E h \in Handlers :
          /\ tasks[h].pc = "done"
          /\ tasks[h].ended = "KeyError"
          /\ tasks[h].seen # NoSignal
          /\ ~HasKey(active_signals, tasks[h].inst)
          /\ \E i \in 1..Len(closed_signals) :
                /\ closed_signals[i].instrument = tasks[h].inst
                /\ closed_signals[i].timestamp = isoformat(tasks[h].seen.timestamp)

(* ------------------------------- C19 ------------------------------------ *)
\* this step is handler h resuming from its await on the extractor
ResumedFromExtractor(h) == tasks[h].pc = "extract" /\ tasks'[h] # tasks[h]

\* C19: under SpecInterleaved the step in which a handler resumes from the extractor with a
\* candidate for x both tests `x in active_signals` and acts on it.  If x is a key the
\* registry is left as it is and the handler goes on to the classifier (update path); if x
\* is not a key the candidate is appended to the registry in that same step and every
\* earlier entry stays as it was.  So a candidate never replaces a record, and of two
\* candidates for x the one whose handler resumes second takes the update path.
C19_CheckAndRegisterAtomic ==
    [][\A h \in Handlers :
          (ResumedFromExtractor(h) /\ CandidateRun(log')) =>
             LET x == log'[2].inst
             IN  IF HasKey(active_signals, x)
                 THEN /\ log'[2].ev = "already exists"
                      /\ active_signals' = active_signals
                      /\ tasks'[h].pc = "classify"
                      /\ tasks'[h].path = "update"
                      /\ tasks'[h].inst = x
                 ELSE /\ log'[2].ev = "NEW SIGNAL PARSED"
                      /\ Keys(active_signals') = Append(Keys(active_signals), x)
                      /\ Get(active_signals', x).oid = next_oid
                      /\ \A i \in 1..Len(active_signals) : active_signals'[i] = active_signals[i]
                      /\ tasks'[h].pc = "done"
                      /\ tasks'[h].path = "new"
                      /\ tasks'[h].inst = x]_vars

\* two posts were in progress at the same time, both got a candidate for the same
\* instrument: one handler registered its candidate, the other one, whose post had arrived
\* before that candidate was built, is on the update path and its candidate was not stored
C19_Witness ==
    \E h \in Handlers : \E g \in Handlers \ {h} :
        /\ tasks[h].pc = "done"
        /\ tasks[h].path = "new"
        /\ tasks[g].pc = "classify"
        /\ tasks[g].path = "update"
        /\ tasks[g].inst = tasks[h].inst
        /\ HasKey(active_signals, tasks[h].inst)
        /\ Get(active_signals, tasks[h].inst).timestamp > tasks[g].date
        /\ Get(active_signals, tasks[h].inst).timestamp > tasks[h].date
        /\ Get(active_signals, tasks[h].inst).oid = next_oid - 2
        /\ Len(active_signals) = 1
        /\ closed_signals = <<>>

(* ------------------------------- C20 ------------------------------------ *)
\* C20: in every reachable state each key of the registry is the instrument of the record
\* stored under it and no two entries hold the same record; and a close_trade call, which
\* deletes the key named by the record's instrument, takes out of the registry the entry
\* that holds the record it was applied to and no other.
C20_KeyIsInstrument ==
    /\ [](\A i \in 1..Len(active_signals) :
             /\ active_signals[i].key = active_signals[i].sig.instrument
             /\ \A j \in 1..Len(active_signals) :
                   active_signals[j].sig.oid = active_signals[i].sig.oid => j = i)
    /\ [][\A i \in 1..Len(calls') :
             action_of(calls'[i].update) = "close_trade" =>
                LET b == calls'[i].before
                IN  /\ \E j \in 1..Len(active_signals) :
                          active_signals[j].key = b.instrument /\ active_signals[j].sig = b
                    /\ active_signals' = SelectSeq(active_signals, LAMBDA e : e.sig.oid # b.oid)
                    /\ Len(active_signals') = Len(active_signals) - 1]_vars

\* one of two active records has just been closed; the other one is still in the registry
C20_Witness ==
    /\ Len(calls) = 1
    /\ action_of(calls[1].update) = "close_trade"
    /\ ~HasKey(active_signals, calls[1].before.instrument)
    /\ Len(active_signals) = 1
    /\ active_signals[1].key = active_signals[1].sig.instrument
    /\ active_signals[1].key # calls[1].before.instrument

====
